---- MODULE Spec2Model ----
(***************************************************************************)
(* A model of the Wordle solvers of wordleGames.py and entropyGame.py:     *)
(* the feedback rule (WordleUtils.validateGuess), the constraint trackers  *)
(* and the candidate test (updateCountsHelper, _isValidOption,             *)
(* filterOptions), the game loops of WordleGame, AutoNaiveWordle,          *)
(* BasicWordleCompletion and EntropyWordleCompletion, and the entropy      *)
(* scoring of EntropyWordleCompletion.                                     *)
(***************************************************************************)
EXTENDS Integers, Sequences, FiniteSets, TLC

VARIABLES
    driver,                \* the class whose playGame runs
    dictionary,            \* the words read by _storeOptions
    solution,              \* the hidden solution (WordleGame: the word the user has in mind)
    remaining_options,     \* WordleGame.remaining_options
    guessed_letters,       \* WordleGame.guessed_letters
    wrong_placed_letters,  \* WordleGame.wrong_placed_letters
    bad_letters,           \* WordleGame.bad_letters
    guess_results,         \* WordleGame.guess_results
    next_guess,            \* playGame's local next_guess
    entropies,             \* the list _getEntropiesForRemaining returned last
    raw_input,             \* the colour names the user typed last (WordleGame._submitGuess)
    malformed_inputs,      \* how many malformed inputs the user has typed
    pc,                    \* where playGame stands: "guess", "submit" or "done"
    status,                \* "playing", "won", "failed" or "crashed"
    error                  \* the exception that left playGame, "none" if none

vars == <<driver, dictionary, solution, remaining_options, guessed_letters,
          wrong_placed_letters, bad_letters, guess_results, next_guess,
          entropies, raw_input, malformed_inputs, pc, status, error>>

-----------------------------------------------------------------------------
(* Bounds of the model *)

\* how many words of Pool the word list and the solution are drawn from
NumWords == 5
\* the largest word list
MaxDict == 3
\* the longest guess log followed for a loop without a guess budget
MaxLog == 8
\* how many malformed inputs the user types in one game
MaxMalformed == 1
\* the feedback rule is also applied to every word over this many letters
NumLetters == 2

-----------------------------------------------------------------------------
(* Program constants *)

\* LetterResultOptions
Grey == 0
Yellow == 1
Green == 2

\* the length of a word: range(5)
WordLen == 5
\* the guess budget of WordleGame.playGame
MaxGuesses == 6

Positions == 1..WordLen

\* WordleOption("aaaaa"), the fallback of _getNextGuess
Sentinel == <<"a", "a", "a", "a", "a">>

\* Python's None, for a letter and for a guess
NoLetter == "None"
NoGuess == <<>>

Pool ==
    << <<"s", "p", "e", "e", "d">>,
       <<"e", "r", "a", "s", "e">>,
       <<"c", "r", "a", "n", "e">>,
       <<"s", "t", "e", "e", "d">>,
       <<"e", "e", "r", "i", "e">>,
       <<"s", "p", "r", "e", "e">> >>

Words == {Pool[i] : i \in 1..NumWords}

Speed == Pool[1]
Erase == Pool[2]

Alphabet == <<"a", "b", "c">>

FeedbackWords ==
    Words \cup [Positions -> {Alphabet[i] : i \in 1..NumLetters}]

-----------------------------------------------------------------------------
(* WordleOption *)

\* WordleOption.letters = Counter(word): the letters of the word ...
Letters(word) == {word[i] : i \in 1..Len(word)}

\* ... and how often each occurs (0 for a letter the word lacks)
Count(word, c) == Cardinality({i \in 1..Len(word) : word[i] = c})

Min(a, b) == IF a <= b THEN a ELSE b

-----------------------------------------------------------------------------
(* WordleUtils.validateGuess *)

\* the first pass: Green where the letters agree
GreenPass(guess, sol) ==
    [i \in Positions |-> IF sol[i] = guess[i] THEN Green ELSE Grey]

\* sol_letters after the first pass: one less for every Green
AfterGreens(guess, sol) ==
    [c \in Letters(sol) |->
        Count(sol, c) - Cardinality({i \in Positions : sol[i] = guess[i] /\ guess[i] = c})]

\* the second pass, from position i on: Yellow while the letter is left in sol_letters
RECURSIVE YellowPass(_, _, _, _)
YellowPass(guess, results, sol_letters, i) ==
    IF i > WordLen THEN results
    ELSE IF results[i] = Green THEN YellowPass(guess, results, sol_letters, i + 1)
    ELSE IF guess[i] \in DOMAIN sol_letters /\ sol_letters[guess[i]] > 0
         THEN YellowPass(guess,
                         [results EXCEPT ![i] = Yellow],
                         [sol_letters EXCEPT ![guess[i]] = @ - 1],
                         i + 1)
         ELSE YellowPass(guess, results, sol_letters, i + 1)

\* a feedback rule that credits a letter Yellow once only
YellowOncePass(guess, sol) ==
    LET g == GreenPass(guess, sol)
        left == AfterGreens(guess, sol)
    IN [i \in Positions |->
          IF g[i] = Green THEN Green
          ELSE IF /\ guess[i] \in DOMAIN left
                  /\ left[guess[i]] > 0
                  /\ \A j \in 1..(i - 1) : guess[j] = guess[i] => g[j] = Green
               THEN Yellow
               ELSE Grey]

\* a feedback rule of one pass: Yellow wherever the solution holds the letter
SinglePass(guess, sol) ==
    [i \in Positions |->
        IF sol[i] = guess[i] THEN Green
        ELSE IF guess[i] \in Letters(sol) THEN Yellow
        ELSE Grey]

validateGuess(guess, sol) ==
    YellowPass(guess, GreenPass(guess, sol), AfterGreens(guess, sol), 1)

\* Counter(results).get(LetterResultOptions.Green, 0) == 5
IsWin(results) ==
    Cardinality({i \in 1..Len(results) : results[i] = Green}) = WordLen

-----------------------------------------------------------------------------
(* WordleUtils.updateCountsHelper *)

\* dict.get(key, 0)
Get(d, key) == IF key \in DOMAIN d THEN d[key] ELSE 0

\* Counter(word), the guessed_counts of _updateOptions
Counter(word) == [c \in Letters(word) |-> Count(word, c)]

\* zip(word, result) stops at the shorter of the two
Zipped(word, result) == 1..Min(Len(word), Len(result))

\* result_counts: per letter of the zipped guess, its Green and Yellow positions
ResultCounts(word, result) ==
    [c \in {word[i] : i \in Zipped(word, result)} |->
        Cardinality({i \in Zipped(word, result) :
                        word[i] = c /\ result[i] \in {Green, Yellow}})]

\* the trackers as updateCountsHelper leaves them, and the counts it returns
updateCountsHelper(word, result, gl, wpl, bl) ==
    LET rc == ResultCounts(word, result)
        zip == Zipped(word, result)
    IN [result_counts |-> rc,
        guessed_letters |->
            [i \in Positions |->
                IF i \in zip /\ result[i] = Green THEN word[i] ELSE gl[i]],
        wrong_placed_letters |->
            [i \in Positions |->
                IF i \in zip /\ (\/ result[i] = Yellow
                                 \/ result[i] = Grey /\ rc[word[i]] > 0)
                THEN wpl[i] \cup {word[i]}
                ELSE wpl[i]],
        bad_letters |-> bl \cup {c \in DOMAIN rc : rc[c] = 0}]

-----------------------------------------------------------------------------
(* WordleUtils._isValidOption *)

\* the loop with a frequency test that always wants the option's own count
OptionCharExactCount(option, i, guessed_counts, result_counts, gl, wpl, bl) ==
    LET ch == option[i]
    IN IF ch \in bl THEN "False"
       ELSE IF gl[i] # NoLetter /\ gl[i] # ch THEN "False"
       ELSE IF ch \in wpl[i] THEN "False"
       ELSE IF Get(guessed_counts, ch) > 0
            THEN IF ch \notin DOMAIN result_counts THEN "KeyError"
                 ELSE IF result_counts[ch] # Count(option, ch) THEN "False"
                 ELSE "next"
       ELSE "next"

\* the body of the loop over the option's letters, at position i:
\* "False" for a return False, "KeyError" for a result_counts[...] of a
\* letter result_counts lacks, "next" to go on
OptionChar(option, i, guessed_counts, result_counts, gl, wpl, bl) ==
    LET ch == option[i]
    IN IF ch \in bl THEN "False"
       ELSE IF gl[i] # NoLetter /\ gl[i] # ch THEN "False"
       ELSE IF ch \in wpl[i] THEN "False"
       ELSE IF Get(guessed_counts, ch) >= Count(option, ch)
            THEN IF ch \notin DOMAIN result_counts THEN "KeyError"
                 ELSE IF result_counts[ch] # Count(option, ch) THEN "False"
                 ELSE "next"
       ELSE IF Get(guessed_counts, ch) > 0
            THEN IF ch \notin DOMAIN result_counts THEN "KeyError"
                 ELSE IF result_counts[ch] # guessed_counts[ch] THEN "False"
                 ELSE "next"
       ELSE "next"

RECURSIVE OptionLoop(_, _, _, _, _, _, _)
OptionLoop(option, i, guessed_counts, result_counts, gl, wpl, bl) ==
    IF i > Len(option) THEN "next"
    ELSE LET r == OptionChar(option, i, guessed_counts, result_counts, gl, wpl, bl)
         IN IF r # "next" THEN r
            ELSE OptionLoop(option, i + 1, guessed_counts, result_counts, gl, wpl, bl)

\* "True", "False" or "KeyError"
isValidOption(option, guessed_counts, result_counts, gl, wpl, bl) ==
    LET r == OptionLoop(option, 1, guessed_counts, result_counts, gl, wpl, bl)
    IN IF r # "next" THEN r
       ELSE IF \E c \in DOMAIN result_counts :
                  result_counts[c] > 0 /\ c \notin Letters(option)
            THEN "False"
       ELSE IF \E i \in Positions : \E letter \in wpl[i] : letter \notin Letters(option)
            THEN "False"
       ELSE "True"

-----------------------------------------------------------------------------
(* WordleGame.filterOptions *)

\* a filter that removes the valid options and keeps the others
filterOptionsInverted(options, guessed_counts, result_counts, gl, wpl, bl) ==
    {[remaining |->
        {o \in options :
            isValidOption(o, guessed_counts, result_counts, gl, wpl, bl) # "True"},
      error |-> "none"]}

\* What filterOptions can leave behind.  It walks list(remaining_options), a
\* set in no fixed order, and removes the options that are not valid.  A
\* KeyError of _isValidOption ends the walk: the options walked before it
\* (any set of options that do not raise) have been filtered, the rest not.
filterOptions(options, guessed_counts, result_counts, gl, wpl, bl) ==
    LET valid(o) == isValidOption(o, guessed_counts, result_counts, gl, wpl, bl)
        raising == {o \in options : valid(o) = "KeyError"}
    IN IF raising = {}
       THEN {[remaining |-> {o \in options : valid(o) = "True"}, error |-> "none"]}
       ELSE {[remaining |-> options \ {o \in walked : valid(o) = "False"},
              error |-> "KeyError"] : walked \in SUBSET (options \ raising)}

\* WordleGame.__init__: the trackers of a new game
NoGuessedLetters == [i \in Positions |-> NoLetter]
NoWrongPlaced == [i \in Positions |-> {}]

\* WordleGame._updateOptions on the last record of the log: the states it can
\* leave, as [trackers, remaining, error]
updateOptions(options, word, result, gl, wpl, bl) ==
    LET u == updateCountsHelper(word, result, gl, wpl, bl)
    IN {[trackers |-> u, remaining |-> f.remaining, error |-> f.error] :
          f \in filterOptions(options, Counter(word), u.result_counts,
                              u.guessed_letters, u.wrong_placed_letters, u.bad_letters)}

-----------------------------------------------------------------------------
(* EntropyWordleCompletion: the colorings and the candidate filter *)

Colors == {Green, Yellow, Grey}

\* remaining_map: per position, letter -> the options with that letter there
remaining_map(options) ==
    [i \in Positions |->
        [c \in {o[i] : o \in options} |-> {o \in options : o[i] = c}]]

\* _getPossibleColorings: Green alone where remaining_map[i] holds one letter,
\* the three colours elsewhere
getPossibleColorings(options) ==
    LET rmap == remaining_map(options)
    IN {k \in [Positions -> Colors] :
          \A i \in Positions : Cardinality(DOMAIN rmap[i]) = 1 => k[i] = Green}

\* a yellow-ordering check that accepts every coloring
AnyColoring(word, coloring) == TRUE

\* a yellow-ordering check that walks the word from its start
isValidColoringForward(word, coloring) ==
    ~ \E i \in Zipped(word, coloring) : \E j \in Zipped(word, coloring) :
          /\ i > j
          /\ word[i] = word[j]
          /\ coloring[j] = Yellow
          /\ coloring[i] = Grey

\* isValidColoring: walking the word from its end, a letter already seen
\* Yellow must not be Grey
isValidColoring(word, coloring) ==
    ~ \E i \in Zipped(word, coloring) : \E j \in Zipped(word, coloring) :
          /\ i < j
          /\ word[i] = word[j]
          /\ coloring[j] = Yellow
          /\ coloring[i] = Grey

\* remaining_map[i].get(c), the empty set for a letter no option has there
Bucket(rmap, i, c) == IF c \in DOMAIN rmap[i] THEN rmap[i][c] ELSE {}

\* WordleUtils.filter: the options consistent with one guess and its coloring.
\* The position pass works on the index (Green: only the bucket of the
\* guessed letter; Grey: not that bucket); the frequency pass is the test of
\* _isValidOption on trackers updated from this guess alone.
filter(options, rmap, word, result) ==
    LET u == updateCountsHelper(word, result, NoGuessedLetters, NoWrongPlaced, {})
        placed == {o \in options :
                     \A i \in Positions :
                        /\ result[i] = Green => o \in Bucket(rmap, i, word[i])
                        /\ result[i] = Grey => o \notin Bucket(rmap, i, word[i])}
    IN {o \in placed :
          isValidOption(o, Counter(word), u.result_counts, u.guessed_letters,
                        u.wrong_placed_letters, u.bad_letters) = "True"}

-----------------------------------------------------------------------------
(* EntropyWordleCompletion: the entropy of a guess *)

(***************************************************************************)
(* An entropy h computed over a catalog of N options is kept exactly, as   *)
(* the fraction num/den = 2^(N*h): a term -P*log2(P) with P = n/N is the   *)
(* factor N^n / n^n, 0.0 is 1/1, and adding entropies multiplies the       *)
(* fractions.  err is the exception the computation raised.                *)
(***************************************************************************)
Zero == [num |-> 1, den |-> 1, err |-> "none"]

Plus(e, f) ==
    [num |-> e.num * f.num, den |-> e.den * f.den,
     err |-> IF e.err # "none" THEN e.err ELSE f.err]

\* e > f, for entropies over the same catalog
Greater(e, f) == e.num * f.den > f.num * e.den

\* an entropy term of the wrong sign: P * log2(P)
calcEntropySign(options, rmap, wordle_option, result) ==
    LET n == Cardinality(filter(options, rmap, wordle_option, result))
        N == Cardinality(options)
    IN IF N = 0 THEN [num |-> 1, den |-> 1, err |-> "ZeroDivisionError"]
       ELSE IF n = 0 THEN Zero
       ELSE [num |-> n ^ n, den |-> N ^ n, err |-> "none"]

\* _calcEntropy: P = len(filtered_options) / len(remaining_options)
calcEntropy(options, rmap, wordle_option, result) ==
    LET n == Cardinality(filter(options, rmap, wordle_option, result))
        N == Cardinality(options)
    IN IF N = 0 THEN [num |-> 1, den |-> 1, err |-> "ZeroDivisionError"]
       ELSE IF n = 0 THEN Zero
       ELSE [num |-> N ^ n, den |-> n ^ n, err |-> "none"]

RECURSIVE SumEntropy(_, _, _, _)
SumEntropy(options, rmap, wordle_option, results) ==
    IF results = {} THEN Zero
    ELSE LET result == CHOOSE r \in results : TRUE
         IN Plus(calcEntropy(options, rmap, wordle_option, result),
                 SumEntropy(options, rmap, wordle_option, results \ {result}))

\* the colorings _getEntropy does not skip
Scored(wordle_option, possible_results) ==
    {r \in possible_results : isValidColoring(wordle_option, r)}

\* _getEntropy.  A coloring no option is consistent with adds 0.0, so the sum
\* runs over the others (over all of them when the catalog is empty, where
\* every term raises).
getEntropy(options, rmap, wordle_option, possible_results) ==
    LET scored == Scored(wordle_option, possible_results)
    IN IF options = {}
       THEN SumEntropy(options, rmap, wordle_option, scored)
       ELSE SumEntropy(options, rmap, wordle_option,
                       {r \in scored : filter(options, rmap, wordle_option, r) # {}})

\* _getEntropiesForRemaining: one entropy per remaining option
getEntropiesForRemaining(options) ==
    LET possible_results == getPossibleColorings(options)
        rmap == remaining_map(options)
    IN [wo \in options |-> getEntropy(options, rmap, wo, possible_results)]

-----------------------------------------------------------------------------
(* _getNextGuess *)

\* a selector without its fallback: None for an empty catalog
NoFallback(options) == IF options = {} THEN {NoGuess} ELSE options

\* WordleGame._getNextGuess: the first option the set yields, "aaaaa" if none
getNextGuess(options) == IF options = {} THEN {Sentinel} ELSE options

\* EntropyWordleCompletion._getNextGuess: the first option of the list whose
\* entropy no earlier one reaches, "aaaaa" for an empty list.  The list is in
\* the set's order, so it is any option of greatest entropy.
getNextGuessEntropy(ent) ==
    IF DOMAIN ent = {} THEN {Sentinel}
    ELSE {wo \in DOMAIN ent : \A other \in DOMAIN ent : ~ Greater(ent[other], ent[wo])}

-----------------------------------------------------------------------------
(* The game loops *)

WordleGame == "WordleGame"
AutoNaiveWordle == "AutoNaiveWordle"
BasicWordleCompletion == "BasicWordleCompletion"
EntropyWordleCompletion == "EntropyWordleCompletion"

Drivers == {WordleGame, AutoNaiveWordle, BasicWordleCompletion, EntropyWordleCompletion}

\* the classes that run WordleGame.playGame, with its guess budget
Budgeted == {WordleGame, AutoNaiveWordle}

\* the classes whose _submitGuess calls validateGuess on the solution
Simulated == {AutoNaiveWordle, BasicWordleCompletion, EntropyWordleCompletion}

\* a loop condition that lets one guess more through
LoopOffByOne(d, log) == IF d \in Budgeted THEN Len(log) <= MaxGuesses ELSE TRUE

\* the condition of playGame's loop: "len(self.guess_results) < 6" in
\* WordleGame, "True" in BasicWordleCompletion
LoopContinues(d, log) == IF d \in Budgeted THEN Len(log) < MaxGuesses ELSE TRUE

NoEntropies == [wo \in {} |-> Zero]

Init ==
    /\ driver \in Drivers
    /\ dictionary \in {d \in SUBSET Words : Cardinality(d) <= MaxDict}
    /\ solution \in Words
    /\ remaining_options = dictionary
    /\ guessed_letters = NoGuessedLetters
    /\ wrong_placed_letters = NoWrongPlaced
    /\ bad_letters = {}
    /\ guess_results = <<>>
    /\ next_guess = NoGuess
    /\ entropies = NoEntropies
    /\ raw_input = <<>>
    /\ malformed_inputs = 0
    /\ pc = "guess"
    /\ status = "playing"
    /\ error = "none"

\* the top of the loop and WordleGame._getNextGuess
NaiveGetNextGuess ==
    /\ pc = "guess"
    /\ driver # EntropyWordleCompletion
    /\ LoopContinues(driver, guess_results)
    /\ Len(guess_results) < MaxLog
    /\ next_guess' \in getNextGuess(remaining_options)
    /\ pc' = "submit"
    /\ UNCHANGED <<driver, dictionary, solution, remaining_options, guessed_letters,
                   wrong_placed_letters, bad_letters, guess_results, entropies,
                   raw_input, malformed_inputs, status, error>>

\* the top of the loop and EntropyWordleCompletion._getNextGuess
EntropyGetNextGuess ==
    /\ pc = "guess"
    /\ driver = EntropyWordleCompletion
    /\ LoopContinues(driver, guess_results)
    /\ Len(guess_results) < MaxLog
    /\ \E ent \in {getEntropiesForRemaining(remaining_options)} :
          \E raised \in {{ent[wo].err : wo \in DOMAIN ent} \ {"none"}} :
             /\ entropies' = ent
             /\ IF raised = {}
                THEN /\ next_guess' \in getNextGuessEntropy(ent)
                     /\ pc' = "submit"
                     /\ UNCHANGED <<status, error>>
                ELSE /\ next_guess' = next_guess
                     /\ pc' = "done"
                     /\ status' = "crashed"
                     /\ error' \in raised
    /\ UNCHANGED <<driver, dictionary, solution, remaining_options, guessed_letters,
                   wrong_placed_letters, bad_letters, guess_results,
                   raw_input, malformed_inputs>>

\* WordleGame.playGame leaving its loop: "We failed to guess the wordle correctly."
GuessBudgetExhausted ==
    /\ pc = "guess"
    /\ ~ LoopContinues(driver, guess_results)
    /\ pc' = "done"
    /\ status' = "failed"
    /\ UNCHANGED <<driver, dictionary, solution, remaining_options, guessed_letters,
                   wrong_placed_letters, bad_letters, guess_results, next_guess,
                   entropies, raw_input, malformed_inputs, error>>

\* the rest of one round of the loop, once _submitGuess has returned results:
\* the record is appended, five Greens end the game, else _updateOptions runs
FinishRound(results) ==
    /\ guess_results' = Append(guess_results, [guess |-> next_guess, result |-> results])
    /\ IF IsWin(results)
       THEN /\ pc' = "done"
            /\ status' = "won"
            /\ UNCHANGED <<remaining_options, guessed_letters, wrong_placed_letters,
                           bad_letters, error>>
       ELSE \E u \in updateOptions(remaining_options, next_guess, results,
                                   guessed_letters, wrong_placed_letters, bad_letters) :
               /\ guessed_letters' = u.trackers.guessed_letters
               /\ wrong_placed_letters' = u.trackers.wrong_placed_letters
               /\ bad_letters' = u.trackers.bad_letters
               /\ remaining_options' = u.remaining
               /\ error' = u.error
               /\ pc' = IF u.error = "none" THEN "guess" ELSE "done"
               /\ status' = IF u.error = "none" THEN "playing" ELSE "crashed"

\* AutoNaiveWordle._submitGuess and BasicWordleCompletion._submitGuess
SimulatedSubmitGuess ==
    /\ pc = "submit"
    /\ driver \in Simulated
    /\ \E results \in {validateGuess(next_guess, solution)} : FinishRound(results)
    /\ UNCHANGED <<driver, dictionary, solution, next_guess, entropies,
                   raw_input, malformed_inputs>>

\* WordleGame._mapColorToEnum
mapColorToEnum(color) ==
    IF color = "green" THEN Green
    ELSE IF color = "yellow" THEN Yellow
    ELSE Grey

ColorName(c) ==
    IF c = Green THEN "green" ELSE IF c = Yellow THEN "yellow" ELSE "grey"

\* a coloring as the data model has it: five of the three colour names
WellFormed(input) ==
    /\ Len(input) = WordLen
    /\ \A i \in 1..Len(input) : input[i] \in {"green", "yellow", "grey"}

\* What the user may type for a guess: the true colours of the guess against
\* the word the user has in mind, or these with an entry too many, with the
\* last entry left out, or with a first colour name that is none of the three.
Truthful(guess, sol) == [i \in Positions |-> ColorName(validateGuess(guess, sol)[i])]

Typos(guess, sol) ==
    LET t == Truthful(guess, sol)
    IN {Append(t, "green"), SubSeq(t, 1, WordLen - 1), [t EXCEPT ![1] = "purple"]}

\* WordleGame._submitGuess
HumanSubmitGuess ==
    /\ pc = "submit"
    /\ driver = WordleGame
    /\ \E input \in {Truthful(next_guess, solution)} \cup
                    (IF malformed_inputs < MaxMalformed
                     THEN Typos(next_guess, solution) ELSE {}) :
          /\ raw_input' = input
          /\ malformed_inputs' = IF WellFormed(input) THEN malformed_inputs
                                 ELSE malformed_inputs + 1
          /\ \E results \in {[i \in 1..Len(input) |-> mapColorToEnum(input[i])]} :
                FinishRound(results)
    /\ UNCHANGED <<driver, dictionary, solution, next_guess, entropies>>

Next ==
    \/ NaiveGetNextGuess
    \/ EntropyGetNextGuess
    \/ GuessBudgetExhausted
    \/ SimulatedSubmitGuess
    \/ HumanSubmitGuess

Spec == Init /\ [][Next]_vars

\* The game loops of the simulated games as a running program executes them:
\* a round that can be played is played.  (The user of WordleGame may never
\* answer, and the entropy selector gets no fairness of its own: the games
\* of EntropyWordleCompletion may stop anywhere under FairSpec.)
FairSpec ==
    /\ Init
    /\ [][Next]_vars
    /\ WF_vars(NaiveGetNextGuess)
    /\ WF_vars(SimulatedSubmitGuess)
    /\ WF_vars(GuessBudgetExhausted)

-----------------------------------------------------------------------------
(* The feedback rule on its own *)

FeedbackInit ==
    /\ driver = "validateGuess"
    /\ dictionary = {}
    /\ solution \in FeedbackWords
    /\ remaining_options = {}
    /\ guessed_letters = NoGuessedLetters
    /\ wrong_placed_letters = NoWrongPlaced
    /\ bad_letters = {}
    /\ guess_results = <<>>
    /\ next_guess \in FeedbackWords
    /\ entropies = NoEntropies
    /\ raw_input = <<>>
    /\ malformed_inputs = 0
    /\ pc = "call"
    /\ status = "playing"
    /\ error = "none"

\* one call validateGuess(next_guess, solution), its result put in the log
ValidateGuessCall ==
    /\ pc = "call"
    /\ guess_results' = <<[guess |-> next_guess,
                           result |-> validateGuess(next_guess, solution)]>>
    /\ pc' = "done"
    /\ UNCHANGED <<driver, dictionary, solution, remaining_options, guessed_letters,
                   wrong_placed_letters, bad_letters, next_guess, entropies,
                   raw_input, malformed_inputs, status, error>>

FeedbackSpec == FeedbackInit /\ [][ValidateGuessCall]_vars

-----------------------------------------------------------------------------
(* Properties *)

Last(log) == log[Len(log)]

\* the catalog, its index and its colorings while a guess of the entropy
\* game waits to be submitted: what _getNextGuess has just scored
JustScored == driver = EntropyWordleCompletion /\ pc = "submit"

\* C1: the true feedback of a guess never eliminates the candidate it was
\* computed against: _updateOptions on new trackers keeps every candidate c of
\* the catalog for the feedback of any guess against c, and in a game whose
\* feedback is that of a solution of the word list, the solution stays in
\* remaining_options after every round.
SolutionNeverEliminated ==
    /\ \A g \in Words \cup {Sentinel} : \A c \in remaining_options :
          \A u \in updateOptions(remaining_options, g, validateGuess(g, c),
                                 NoGuessedLetters, NoWrongPlaced, {}) :
             u.error = "none" /\ c \in u.remaining
    /\ (/\ driver \in Simulated \/ malformed_inputs = 0
        /\ solution \in dictionary)
          => solution \in remaining_options

SolutionKeptThroughRounds ==
    /\ driver \in Simulated
    /\ solution \in dictionary
    /\ pc = "guess"
    /\ Len(guess_results) >= 2
    /\ remaining_options = {solution}
    /\ \E i \in Positions : Count(solution, solution[i]) > 1

FeedbackDuplicateSafe ==
    pc = "done" =>
        LET res == guess_results[1].result
        IN /\ \A i \in Positions : res[i] = Green <=> next_guess[i] = solution[i]
           /\ \A x \in Letters(next_guess) :
                 Cardinality({i \in Positions :
                                 next_guess[i] = x /\ res[i] \in {Green, Yellow}})
                    = Min(Count(next_guess, x), Count(solution, x))

DuplicateLetterCredited ==
    /\ pc = "done"
    /\ \E i \in Positions : \E j \in Positions :
          /\ i < j
          /\ next_guess[i] = next_guess[j]
          /\ guess_results[1].result[i] = Yellow
          /\ guess_results[1].result[j] = Grey

\* C4 as stated: for the guess "speed" against the solution "erase", one of
\* the two 'e' positions of the guess is Yellow, not both.
SpeedEraseOneYellowE ==
    (pc = "done" /\ next_guess = Speed /\ solution = Erase)
        => Cardinality({i \in {3, 4} : guess_results[1].result[i] = Yellow}) = 1

\* C4, amended: for the guess "speed" against the solution "erase", both 'e'
\* positions of the guess are Yellow ("erase" has two 'e', neither where the
\* guess has one): the result is Yellow, Grey, Yellow, Yellow, Grey.
SpeedEraseBothYellowE ==
    (pc = "done" /\ next_guess = Speed /\ solution = Erase)
        => guess_results[1].result = <<Yellow, Grey, Yellow, Yellow, Grey>>

SpeedAgainstErase == pc = "done" /\ next_guess = Speed /\ solution = Erase

\* C5: a round of WordleGame whose typed coloring is not five of the three
\* colour names ends in an error and leaves remaining_options and the
\* trackers as they were.
MalformedFeedbackRejected ==
    [][(/\ driver = WordleGame
        /\ pc = "submit"
        /\ pc' # "submit"
        /\ ~ WellFormed(raw_input'))
          => /\ error' # "none"
             /\ remaining_options' = remaining_options
             /\ guessed_letters' = guessed_letters
             /\ wrong_placed_letters' = wrong_placed_letters
             /\ bad_letters' = bad_letters]_vars

\* C6: with an empty catalog, _getNextGuess returns "aaaaa" and raises
\* nothing: the entropy selector scores no option, so it divides by no
\* catalog size.
EmptyCatalogYieldsSentinel ==
    /\ error # "ZeroDivisionError"
    /\ (pc = "submit" /\ remaining_options = {}) =>
          /\ next_guess = Sentinel
          /\ error = "none"
          /\ driver = EntropyWordleCompletion => entropies = NoEntropies

SentinelGuessed ==
    /\ pc = "submit"
    /\ remaining_options = {}
    /\ driver = EntropyWordleCompletion
    /\ Len(guess_results) > 0

TrueFeedbackIsScored ==
    JustScored =>
        \A g \in remaining_options : \A s \in remaining_options :
            /\ validateGuess(g, s) \in getPossibleColorings(remaining_options)
            /\ isValidColoring(g, validateGuess(g, s))

ColoringsLeftOut ==
    /\ JustScored
    /\ \E i \in Positions : Cardinality(DOMAIN remaining_map(remaining_options)[i]) = 1
    /\ \E g \in remaining_options :
          /\ Scored(g, getPossibleColorings(remaining_options))
                # getPossibleColorings(remaining_options)
          /\ \E s \in remaining_options :
                \E i \in Positions : validateGuess(g, s)[i] = Yellow

RECURSIVE SumOfBuckets(_, _, _, _)
SumOfBuckets(options, rmap, g, colorings) ==
    IF colorings = {} THEN 0
    ELSE LET k == CHOOSE r \in colorings : TRUE
         IN Cardinality(filter(options, rmap, g, k))
               + SumOfBuckets(options, rmap, g, colorings \ {k})

Unbudgeted == {BasicWordleCompletion, EntropyWordleCompletion}

SubmitStep == pc = "submit" /\ pc' # "submit"

\* C10: a round whose guess comes from remaining_options and whose feedback
\* (five colours of the three) is not five Greens removes the guess and adds
\* nothing; so a game of BasicWordleCompletion.playGame on a solution of the
\* word list has logged fewer guesses than the list has words whenever it is
\* still running, ends on five Greens only, after at most as many guesses as
\* the list has words, and does end.
NonWinningRoundShrinks ==
    /\ [][/\ (/\ SubmitStep
              /\ next_guess \in remaining_options
              /\ status' # "won"
              /\ driver \in Simulated \/ WellFormed(raw_input'))
                => /\ next_guess \notin remaining_options'
                   /\ remaining_options' \subseteq remaining_options
                   /\ remaining_options' # remaining_options
          /\ (driver \in Unbudgeted /\ solution \in dictionary)
                => /\ Len(guess_results') <= Cardinality(dictionary)
                   /\ pc' # "done" =>
                         /\ Len(guess_results') < Cardinality(dictionary)
                         /\ Len(guess_results') < MaxLog
                   /\ pc' = "done" =>
                         /\ status' = "won"
                         /\ IsWin(Last(guess_results').result)]_vars
    /\ (driver = BasicWordleCompletion /\ solution \in dictionary)
          ~> (pc = "done" /\ status = "won")

WonOnLastWordLeft ==
    /\ driver \in Unbudgeted
    /\ solution \in dictionary
    /\ status = "won"
    /\ Len(guess_results) = Cardinality(dictionary)
    /\ Len(guess_results) >= 3

====
